---- MODULE Spec2Model ----
(***************************************************************************)
(* Model of the KOReader -> Logseq sync plugin: the block builder, the key *)
(* derivation, the bookmark reconciliation of both sync modes and the two  *)
(* orchestrators that drive them over a batch of metadata files.           *)
(*                                                                         *)
(* Strings are sequences of characters.  A fixed literal of the program    *)
(* ("Page bookmark", "### Bookmarks", ...) is one character of the model's *)
(* alphabet, so substring/indexOf/replace act on it as on any other text.  *)
(* The host document store is the interface of spec section 6: a node has  *)
(* a text, properties and ordered children, and children are handed out as *)
(* ["uuid", id] references.                                                *)
(***************************************************************************)
EXTENDS Integers, Sequences, FiniteSets, TLC

(***************************************************************************)
(* Bounds of the model.                                                    *)
(***************************************************************************)
MaxEntries == 2   \* annotation entries per metadata file
MaxRuns == 2      \* sync runs per behaviour
MaxChanges == 1   \* source / setting / manual edits per behaviour

(***************************************************************************)
(* String helpers (JavaScript String methods used by the program).         *)
(***************************************************************************)
Absent == <<>>    \* undefined and "" are both falsy in the program's tests

\* s.substring(n): the characters from 0-based index n on
Substring(s, n) == IF n >= Len(s) THEN <<>> ELSE SubSeq(s, n + 1, Len(s))

\* s.indexOf(pat): 0-based index of the first occurrence, -1 when none
IndexOf(s, pat) ==
  LET hits == {i \in 1..(Len(s) - Len(pat) + 1) : SubSeq(s, i, i + Len(pat) - 1) = pat}
  IN IF hits = {} THEN -1 ELSE (CHOOSE i \in hits : \A j \in hits : i <= j) - 1

\* s.trim()
RECURSIVE TrimLeft(_)
TrimLeft(s) == IF s # <<>> /\ Head(s) \in {" ", "\n"} THEN TrimLeft(Tail(s)) ELSE s
RECURSIVE TrimRight(_)
TrimRight(s) ==
  IF s # <<>> /\ s[Len(s)] \in {" ", "\n"} THEN TrimRight(SubSeq(s, 1, Len(s) - 1)) ELSE s
Trim(s) == TrimRight(TrimLeft(s))


\* s.replace('-', '\\-'): a string pattern replaces the FIRST '-' only
Escape(s) ==
  LET i == IndexOf(s, <<"-">>)
  IN IF i = -1 THEN s
     ELSE SubSeq(s, 1, i) \o <<"\\", "-">> \o Substring(s, i + 1)

(***************************************************************************)
(* Literals of the program.                                                *)
(***************************************************************************)
QuoteMarker == <<">", " ">>
PageBookmarkText == <<"Page bookmark">>
NoTextText == <<"(no text available)">>
PageBookmarkContent == QuoteMarker \o PageBookmarkText
BookmarksHeading == <<"### Bookmarks">>
HeadingMarker == <<"#", "#", " ">>
KeySeparator == <<"___">>
NewlineQuote == <<"\n", ">", " ">>

(***************************************************************************)
(* Source data: the parsed content of the metadata files of a directory.   *)
(* An entry is one annotation table: pos0 (position anchor present), text  *)
(* (the highlighted text) and note (the personal note).  In the legacy     *)
(* "bookmarks" format the same two strings are the fields notes and text.  *)
(***************************************************************************)
PlainText == <<"a">>
DashText == <<"b", "-">>
NoteN == <<"n">>
NoteM == <<"m", "-">>
UserText == <<"u", "s", "r">>   \* what a person types into the graph

Entry(p, t, n) == [pos0 |-> p, text |-> t, note |-> n]

EntryPool ==
  { Entry(TRUE, PlainText, Absent), Entry(TRUE, PlainText, NoteN),
    Entry(TRUE, PlainText, NoteM), Entry(TRUE, DashText, Absent),
    Entry(FALSE, Absent, Absent), Entry(TRUE, Absent, Absent) }

\* legacy entries always carry their highlighted text in the notes field
LegacyPool == {e \in EntryPool : e.pos0 /\ e.text # Absent}

SeqsUpTo(S, n) == UNION {[1..k -> S] : k \in 0..n}

\* doc_props; empty marks a doc_props table without any key
Book(t, a) == [title |-> t, authors |-> a, empty |-> FALSE]
MainBook == Book(<<"T">>, <<"A">>)
OtherBook == Book(<<"U">>, <<"A">>)
\* a book whose doc_props has no authors
NoAuthorBook == Book(<<"U">>, Absent)
\* another book, whose title differs from MainBook's by a character that is
\* not allowed in a page name
CollidingBook == Book(<<"T", "?">>, <<"A">>)
EmptyDocProps == [title |-> Absent, authors |-> Absent, empty |-> TRUE]

File(b, f, es) == [bad |-> FALSE, book |-> b, fmt |-> f, entries |-> es]
\* a file whose text is not the expected `return { ... }` table
BadFile == [bad |-> TRUE, book |-> OtherBook, fmt |-> "absent", entries |-> <<>>]
OtherFile == File(OtherBook, "annotations", <<Entry(TRUE, PlainText, Absent)>>)

MainFiles ==
  {File(MainBook, "annotations", es) : es \in SeqsUpTo(EntryPool, MaxEntries)}
    \cup {File(MainBook, "bookmarks", es) : es \in SeqsUpTo(LegacyPool, MaxEntries)}
    \cup {File(MainBook, "absent", <<>>)}

\* files next to which a fixed file of the main book is synced
PlainFile == File(MainBook, "annotations", <<Entry(TRUE, PlainText, Absent)>>)
TwinFile == File(MainBook, "annotations", <<Entry(TRUE, PlainText, NoteN)>>)
NoAuthorFile == File(NoAuthorBook, "annotations", <<Entry(TRUE, PlainText, Absent)>>)
CollidingFile == File(CollidingBook, "annotations", <<Entry(TRUE, DashText, Absent)>>)
EmptyPropsFile == File(EmptyDocProps, "annotations", <<Entry(TRUE, PlainText, Absent)>>)

\* the directory holds the main book's file, alone or next to one other file
Batches ==
  {<<m>> : m \in MainFiles}
    \cup {<<BadFile, m>> : m \in MainFiles}
    \cup {<<m, OtherFile>> : m \in MainFiles}
    \cup {<<PlainFile, f>> : f \in {TwinFile, NoAuthorFile, CollidingFile}}
    \cup {<<EmptyPropsFile, PlainFile>>}

\* logseq.settings as read by getBookSettings; only the two settings the
\* reconciliation depends on vary
Settings ==
  [syncPageBookmarks : BOOLEAN, syncMode : {"per-page", "single-page"},
   pageNamingConvention : {"author_title"}, bookPagePrefix : {<<>>}]

(***************************************************************************)
(* Block model builder (metadata_to_block and its two handlers).           *)
(***************************************************************************)
\* an IBatchBlock: content, the properties authors and collapsed, children
Block(c, a, ch) == [content |-> c, authors |-> a, children |-> ch, collapsed |-> FALSE]
NullBlock == Block(<<>>, Absent, <<>>)

\* settings.collapseBookmarks, which the model leaves at its default
CollapseBookmarks == TRUE

\* an entry block: 'collapsed' is set when the entry has a personal note
EntryBlock(content, personal_note) ==
  [Block(content, Absent, personal_note) EXCEPT
     !.collapsed = CollapseBookmarks /\ personal_note # <<>>]

\* authors.replace(/\\\n/g, ', '), undefined when authors is falsy
NormalizeAuthors(authors) ==
  [i \in 1..Len(authors) |-> IF authors[i] = "\\\n" THEN ", " ELSE authors[i]]

CreateSimpleBookHeader(book) ==
  Block(HeadingMarker \o book.title, NormalizeAuthors(book.authors), <<>>)

CreateBookBlock(book, bookmarks) ==
  [Block(HeadingMarker \o book.title, NormalizeAuthors(book.authors),
         <<Block(BookmarksHeading, Absent, bookmarks)>>)
     EXCEPT !.collapsed = CollapseBookmarks]

\* one iteration of the loop of handle_annotations_metadata
AnnotationBlock(e) ==
  LET personal_note ==
        IF e.note # Absent THEN <<Block(Escape(e.note), Absent, <<>>)>> ELSE <<>>
      text_content ==
        IF ~e.pos0 THEN PageBookmarkContent
        ELSE IF e.text # Absent THEN QuoteMarker \o Escape(e.text)
        ELSE QuoteMarker \o NoTextText
  IN EntryBlock(text_content, personal_note)

\* one iteration of the loop of handle_bookmarks_metadata
LegacyBlock(e) ==
  LET personal_note ==
        IF e.note # Absent THEN <<Block(e.note, Absent, <<>>)>> ELSE <<>>
  IN EntryBlock(QuoteMarker \o Escape(e.text), personal_note)

\* a variant that keeps the page-only entries whatever the setting
HandleAnnotationsMetadataUnfiltered(file, cfg) ==
  IF file.book.empty \/ file.entries = <<>> THEN NullBlock
  ELSE CreateBookBlock(file.book,
                       [i \in 1..Len(file.entries) |-> AnnotationBlock(file.entries[i])])

HandleAnnotationsMetadata(file, cfg) ==
  IF file.book.empty THEN NullBlock
  ELSE IF file.entries = <<>> THEN NullBlock
  ELSE LET kept == SelectSeq(file.entries, LAMBDA e : e.pos0 \/ cfg.syncPageBookmarks)
       IN CreateBookBlock(file.book, [i \in 1..Len(kept) |-> AnnotationBlock(kept[i])])

\* a variant that gives no block for a file without an entry list
HandleBookmarksMetadataNoHeader(file, cfg) ==
  IF file.book.empty \/ file.fmt = "absent" \/ file.entries = <<>> THEN NullBlock
  ELSE CreateBookBlock(file.book, [i \in 1..Len(file.entries) |-> LegacyBlock(file.entries[i])])

HandleBookmarksMetadata(file, cfg) ==
  IF file.book.empty THEN NullBlock
  ELSE IF file.fmt = "absent" THEN CreateSimpleBookHeader(file.book)
  ELSE IF file.entries = <<>> THEN NullBlock
  ELSE CreateBookBlock(file.book, [i \in 1..Len(file.entries) |-> LegacyBlock(file.entries[i])])

MetadataToBlock(file, cfg) ==
  IF file.book.empty THEN NullBlock
  ELSE IF file.fmt = "annotations" THEN HandleAnnotationsMetadata(file, cfg)
  ELSE HandleBookmarksMetadata(file, cfg)

(***************************************************************************)
(* The document store.  nodes maps a block or page id to its text, parent, *)
(* ordered children, authors property and origin (written by a sync or by  *)
(* a person).  A run threads st = [nodes, pages, next, log, budget, msgs,   *)
(* counted] through its calls: log lists the mutations issued so far, a    *)
(* budget k >= 0 stops the run after its k-th mutation, msgs lists the     *)
(* messages shown to the user and counted the increments of the progress   *)
(* notification.                                                           *)
(***************************************************************************)
NoId == 0
Unlimited == 0 - 1

Node(text, parent, authors, by) ==
  [text |-> text, parent |-> parent, kids |-> <<>>, authors |-> authors, by |-> by,
   collapsed |-> FALSE]

\* the properties option of insertBlock
Properties(authors, collapsed) == [authors |-> authors, collapsed |-> collapsed]
NoProperties == Properties(Absent, FALSE)

Mutation(op, id, parent, text) == [op |-> op, id |-> id, parent |-> parent, text |-> text]

Halted(st) == st.budget >= 0 /\ Len(st.log) >= st.budget

\* showErrorToUser(message, details): logseq.UI.showMsg(message, "error")
ShowErrorToUser(st, message) ==
  IF Halted(st) THEN st ELSE [st EXCEPT !.msgs = Append(@, message)]

\* syncProgress.increment(1)
Increment(st) == IF Halted(st) THEN st ELSE [st EXCEPT !.counted = @ + 1]

RECURSIVE Descendants(_, _)
Descendants(nodes, id) ==
  {id} \cup UNION {Descendants(nodes, nodes[id].kids[k]) : k \in 1..Len(nodes[id].kids)}

\* logseq.Editor.insertBlock(parent, content, {sibling: false, properties})
InsertBlock(st, parent, content, properties) ==
  IF Halted(st) \/ parent \notin DOMAIN st.nodes THEN st
  ELSE LET id == st.next
       IN [st EXCEPT
             !.nodes = (id :> [Node(content, parent, properties.authors, "sync")
                                 EXCEPT !.collapsed = properties.collapsed])
                         @@ [st.nodes EXCEPT ![parent].kids = Append(@, id)],
             !.next = id + 1,
             !.log = Append(@, Mutation("insert", id, parent, content))]

\* logseq.Editor.updateBlock(id, content)
UpdateBlock(st, id, content) ==
  IF Halted(st) \/ id \notin DOMAIN st.nodes THEN st
  ELSE [st EXCEPT
          !.nodes = [st.nodes EXCEPT ![id].text = content, ![id].by = "sync"],
          !.log = Append(@, Mutation("update", id, st.nodes[id].parent, content))]

\* logseq.Editor.removeBlock(id): the block goes with its subtree
RemoveBlock(st, id) ==
  IF Halted(st) \/ id \notin DOMAIN st.nodes THEN st
  ELSE LET dead == Descendants(st.nodes, id)
           p == st.nodes[id].parent
       IN [st EXCEPT
             !.nodes = [n \in DOMAIN st.nodes \ dead |->
                          IF n = p
                          THEN [st.nodes[n] EXCEPT !.kids = SelectSeq(@, LAMBDA k : k # id)]
                          ELSE st.nodes[n]],
             !.log = Append(@, Mutation("remove", id, p, st.nodes[id].text))]

\* logseq.Editor.createPage(name, properties)
CreatePage(st, name, authors) ==
  IF Halted(st) THEN st
  ELSE LET id == st.next
       IN [st EXCEPT
             !.nodes = (id :> Node(name, NoId, authors, "sync")) @@ st.nodes,
             !.pages = (name :> id) @@ st.pages,
             !.next = id + 1,
             !.log = Append(@, Mutation("createPage", id, NoId, name))]

RECURSIVE InsertBlockTree(_, _, _)
RECURSIVE InsertChildren(_, _, _)
InsertBlockTree(st, parentUuid, block) ==
  IF Halted(st) \/ parentUuid \notin DOMAIN st.nodes THEN st
  ELSE InsertChildren(
         InsertBlock(st, parentUuid, block.content, Properties(block.authors, block.collapsed)),
         st.next, block.children)
InsertChildren(st, inserted, children) ==
  IF children = <<>> THEN st
  ELSE InsertChildren(InsertBlockTree(st, inserted, Head(children)), inserted, Tail(children))

(***************************************************************************)
(* Page naming (per-book mode).                                            *)
(***************************************************************************)
MaxPageNameLength == 100
InvalidPageNameChars == {"<", ">", ":", "\"", "/", "\\", "|", "?", "*", "#", "[", "]"}
Whitespace == {" ", "\n", "\t"}

\* a variant that never puts the authors into the name
GeneratePageNameTitleOnly(book, cfg) ==
  cfg.bookPagePrefix \o (IF book.title # Absent THEN book.title ELSE <<"Untitled Book">>)

GeneratePageName(book, cfg) ==
  LET title == IF book.title # Absent THEN book.title ELSE <<"Untitled Book">>
      authors == NormalizeAuthors(book.authors)
  IN IF cfg.pageNamingConvention = "author_title" /\ authors # Absent
     THEN cfg.bookPagePrefix \o authors \o <<" ", "-", " ">> \o title
     ELSE cfg.bookPagePrefix \o title

\* .replace(/\s+/g, " ")
\* every run of whitespace becomes one space: a whitespace character that
\* is followed by another is dropped, the last of the run becomes " "
CollapseWhitespace(s) ==
  LET marked == [k \in 1..Len(s) |->
                   [c |-> IF s[k] \in Whitespace THEN " " ELSE s[k],
                    drop |-> s[k] \in Whitespace /\ k < Len(s) /\ s[k + 1] \in Whitespace]]
      kept == SelectSeq(marked, LAMBDA m : ~m.drop)
  IN [k \in 1..Len(kept) |-> kept[k].c]

\* a variant without the final substring(0, 100)
SanitizePageNameUncut(name) ==
  Trim(CollapseWhitespace(SelectSeq(name, LAMBDA c : c \notin InvalidPageNameChars)))

SanitizePageName(name) ==
  LET stripped == SelectSeq(name, LAMBDA c : c \notin InvalidPageNameChars)
      trimmed == Trim(CollapseWhitespace(stripped))
  IN SubSeq(trimmed, 1, IF Len(trimmed) < MaxPageNameLength THEN Len(trimmed)
                        ELSE MaxPageNameLength)

\* getOrCreateBookPage: the page of the sanitized name, created when missing
BookPageName(file, cfg) == SanitizePageName(GeneratePageName(file.book, cfg))

GetOrCreateBookPage(st, file, cfg) ==
  IF BookPageName(file, cfg) \in DOMAIN st.pages THEN st
  ELSE CreatePage(st, BookPageName(file, cfg), NormalizeAuthors(file.book.authors))

\* the first top-level block of the page whose content is "### Bookmarks"
FindBookmarksBlock(nodes, parent) ==
  LET kids == nodes[parent].kids
      hits == {k \in 1..Len(kids) : nodes[kids[k]].text = BookmarksHeading}
  IN IF hits = {} THEN NoId ELSE kids[CHOOSE k \in hits : \A h \in hits : k <= h]

\* a variant that inserts the section without looking for one
CreateBookmarksSectionAlways(st, pageUUID) ==
  IF Halted(st) \/ pageUUID \notin DOMAIN st.nodes THEN st
  ELSE InsertBlock(st, pageUUID, BookmarksHeading, NoProperties)

CreateBookmarksSection(st, pageUUID) ==
  IF Halted(st) \/ pageUUID \notin DOMAIN st.nodes THEN st
  ELSE IF FindBookmarksBlock(st.nodes, pageUUID) # NoId THEN st
  ELSE InsertBlock(st, pageUUID, BookmarksHeading, NoProperties)

(***************************************************************************)
(* existing_bookmarks: a JavaScript object used as a map from entry key to *)
(* block id; it keeps its keys in insertion order.                         *)
(***************************************************************************)
HasKey(idx, key) == \E k \in 1..Len(idx) : idx[k].key = key
GetKey(idx, key) == idx[CHOOSE k \in 1..Len(idx) : idx[k].key = key].id
PutKey(idx, key, id) ==
  IF HasKey(idx, key)
  THEN [k \in 1..Len(idx) |-> IF idx[k].key = key THEN [key |-> key, id |-> id] ELSE idx[k]]
  ELSE Append(idx, [key |-> key, id |-> id])
DeleteKey(idx, key) == SelectSeq(idx, LAMBDA r : r.key # key)

(***************************************************************************)
(* Key derivation.                                                         *)
(***************************************************************************)

\* existing side, per-book mode
ExistingKeyPerPage(content) ==
  LET content_start == IndexOf(content, NewlineQuote)
  IN IF content_start > -1 THEN Escape(Substring(content, content_start + 3))
     ELSE Escape(Substring(content, 2))

\* existing side, single-container mode
ExistingKeySingle(content) ==
  LET content_start == IndexOf(content, NewlineQuote)
  IN Escape(Substring(content, content_start + 3))

\* fresh side, per-book mode: is the annotation skipped before a key exists
FreshKeySkipped(e, legacy) == ~legacy /\ e.pos0 /\ e.text = Absent

FreshKeyPerPage(e, legacy) ==
  IF legacy THEN Escape(e.text)
  ELSE IF ~e.pos0 THEN PageBookmarkText
  ELSE Escape(e.text)

\* fresh side, single-container mode: the built entry's content without "> "
FreshKeySingle(bookmark) == Substring(bookmark.content, 2)

\* the comparison without the entry marker, which matches no stored entry
IsPageBookmarkContentUnmarked(content) == Trim(content) = PageBookmarkText

IsPageBookmarkContent(content) == Trim(content) = PageBookmarkContent

(***************************************************************************)
(* Personal-note reconciliation of a matched entry (the same code in both  *)
(* modes): the entry's first child is taken to be its note.                *)
(***************************************************************************)

\* a variant that also writes the matched entry again, with the collapsed
\* property its fresh block would have
ReconcileNoteRewriting(st, existing_bookmark, personal_note) ==
  IF existing_bookmark \notin DOMAIN st.nodes THEN st
  ELSE LET st0 == UpdateBlock(st, existing_bookmark, st.nodes[existing_bookmark].text)
           st1 == IF existing_bookmark \notin DOMAIN st0.nodes THEN st0
                  ELSE [st0 EXCEPT !.nodes[existing_bookmark].collapsed =
                                      CollapseBookmarks /\ personal_note # <<>>]
           kids == st1.nodes[existing_bookmark].kids
       IN IF Len(kids) > 0
          THEN IF personal_note = <<>>
               THEN RemoveBlock(st1, kids[1])
               ELSE IF st1.nodes[kids[1]].text # personal_note[1].content
                    THEN UpdateBlock(st1, kids[1], personal_note[1].content)
                    ELSE st1
          ELSE IF personal_note # <<>>
               THEN InsertBlockTree(st1, existing_bookmark, personal_note[1])
               ELSE st1

ReconcileNote(st, existing_bookmark, personal_note) ==
  IF existing_bookmark \notin DOMAIN st.nodes THEN st
  ELSE LET kids == st.nodes[existing_bookmark].kids
       IN IF Len(kids) > 0
          THEN LET existing_note == kids[1]
               IN IF personal_note = <<>>
                  THEN RemoveBlock(st, existing_note)
                  ELSE IF st.nodes[existing_note].text # personal_note[1].content
                       THEN UpdateBlock(st, existing_note, personal_note[1].content)
                       ELSE st
          ELSE IF personal_note # <<>>
               THEN InsertBlockTree(st, existing_bookmark, personal_note[1])
               ELSE st

(***************************************************************************)
(* syncBookmarksToPage: reconciliation of one book in per-book mode.       *)
(***************************************************************************)
Indexed(st, idx) == [st |-> st, idx |-> idx]

\* the loop that indexes the existing children of the section by key
RECURSIVE IndexExistingPerPage(_, _, _, _)
IndexExistingPerPage(st, existing_bookmark_blocks, idx, settings) ==
  IF existing_bookmark_blocks = <<>> THEN Indexed(st, idx)
  ELSE LET bookmark == Head(existing_bookmark_blocks)
           rest == Tail(existing_bookmark_blocks)
       IN IF bookmark \notin DOMAIN st.nodes \/ st.nodes[bookmark].text = <<>>
          THEN IndexExistingPerPage(st, rest, idx, settings)
          ELSE IF ~settings.syncPageBookmarks /\ IsPageBookmarkContent(st.nodes[bookmark].text)
          THEN IndexExistingPerPage(RemoveBlock(st, bookmark), rest, idx, settings)
          ELSE IndexExistingPerPage(
                 st, rest, PutKey(idx, ExistingKeyPerPage(st.nodes[bookmark].text), bookmark),
                 settings)

\* personal_note and bookmarkBlock of one annotation
PerPageNote(e, legacy) ==
  IF legacy
  THEN IF e.note # Absent THEN <<Block(e.note, Absent, <<>>)>> ELSE <<>>
  ELSE IF e.note # Absent THEN <<Block(Escape(e.note), Absent, <<>>)>> ELSE <<>>

PerPageBookmarkBlock(e, legacy) ==
  IF legacy THEN EntryBlock(QuoteMarker \o Escape(e.text), PerPageNote(e, legacy))
  ELSE IF ~e.pos0 THEN EntryBlock(PageBookmarkContent, PerPageNote(e, legacy))
  ELSE IF e.text # Absent
       THEN EntryBlock(QuoteMarker \o Escape(e.text), PerPageNote(e, legacy))
       ELSE EntryBlock(QuoteMarker \o NoTextText, PerPageNote(e, legacy))

\* the loop over the fresh annotations
RECURSIVE ReconcileAnnotations(_, _, _, _, _, _)
ReconcileAnnotations(st, idx, annotations, legacy, section, settings) ==
  IF annotations = <<>> THEN Indexed(st, idx)
  ELSE LET annotation == Head(annotations)
           rest == Tail(annotations)
           key == FreshKeyPerPage(annotation, legacy)
       IN IF FreshKeySkipped(annotation, legacy)
          THEN ReconcileAnnotations(st, idx, rest, legacy, section, settings)
          ELSE IF ~legacy /\ ~annotation.pos0 /\ ~settings.syncPageBookmarks
          THEN ReconcileAnnotations(st, idx, rest, legacy, section, settings)
          ELSE IF HasKey(idx, key)
          THEN ReconcileAnnotations(
                 ReconcileNote(st, GetKey(idx, key), PerPageNote(annotation, legacy)),
                 DeleteKey(idx, key), rest, legacy, section, settings)
          ELSE ReconcileAnnotations(
                 InsertBlockTree(st, section, PerPageBookmarkBlock(annotation, legacy)),
                 idx, rest, legacy, section, settings)


\* the final loop: every existing entry whose key was never matched goes
RECURSIVE RemoveStale(_, _)
RemoveStale(st, idx) ==
  IF idx = <<>> THEN st ELSE RemoveStale(RemoveBlock(st, Head(idx).id), Tail(idx))

SyncBookmarksToPage(st, file, pageUUID, settings) ==
  IF Halted(st) \/ pageUUID \notin DOMAIN st.nodes THEN st
  ELSE LET found == FindBookmarksBlock(st.nodes, pageUUID)
           existing_bookmark_blocks == IF found = NoId THEN <<>> ELSE st.nodes[found].kids
           st1 == IF found = NoId THEN CreateBookmarksSection(st, pageUUID) ELSE st
           section == IF found = NoId THEN st.next ELSE found
           indexed == IndexExistingPerPage(st1, existing_bookmark_blocks, <<>>, settings)
           done == ReconcileAnnotations(indexed.st, indexed.idx, file.entries,
                                        file.fmt = "bookmarks", section, settings)
       IN RemoveStale(done.st, done.idx)

(***************************************************************************)
(* The per-file body of syncSinglePageMode: reconciliation of one book in  *)
(* single-container mode.                                                  *)
(***************************************************************************)
RECURSIVE IndexExistingSingle(_, _, _, _)
IndexExistingSingle(st, existing_bookmark_blocks, idx, settings) ==
  IF existing_bookmark_blocks = <<>> THEN Indexed(st, idx)
  ELSE LET bookmark == Head(existing_bookmark_blocks)
           rest == Tail(existing_bookmark_blocks)
       IN IF bookmark \notin DOMAIN st.nodes \/ st.nodes[bookmark].text = <<>>
          THEN IndexExistingSingle(st, rest, idx, settings)
          ELSE IF ~settings.syncPageBookmarks /\ IsPageBookmarkContent(st.nodes[bookmark].text)
          THEN IndexExistingSingle(RemoveBlock(st, bookmark), rest, idx, settings)
          ELSE IndexExistingSingle(
                 st, rest, PutKey(idx, ExistingKeySingle(st.nodes[bookmark].text), bookmark),
                 settings)

\* the loop over the children of the built "### Bookmarks" block
RECURSIVE ReconcileBookmarksSingle(_, _, _, _)
ReconcileBookmarksSingle(st, idx, bookmarks, section) ==
  IF bookmarks = <<>> THEN st
  ELSE LET bookmark == Head(bookmarks)
           key == FreshKeySingle(bookmark)
       IN IF HasKey(idx, key)
          THEN ReconcileBookmarksSingle(
                 ReconcileNote(st, GetKey(idx, key), bookmark.children),
                 idx, Tail(bookmarks), section)
          ELSE ReconcileBookmarksSingle(
                 InsertBlockTree(st, section, bookmark), idx, Tail(bookmarks), section)

\* the title captured by /##\s+(.*?)\n/ from a book block's content; the
\* store renders the block's properties on the lines after the heading
TitleMatch(content) == TrimLeft(Substring(content, 2))

BookKey(authors, title) == authors \o KeySeparator \o title

\* existingBlocks: the result of the datascript query (the children of the
\* LKRS block that carry an authors property), first block of a key wins
RECURSIVE ExistingBlocks(_, _, _)
ExistingBlocks(nodes, ids, idx) ==
  IF ids = <<>> THEN idx
  ELSE LET b == nodes[Head(ids)]
           key == BookKey(b.authors, TitleMatch(b.text))
       IN IF b.authors = Absent \/ HasKey(idx, key)
          THEN ExistingBlocks(nodes, Tail(ids), idx)
          ELSE ExistingBlocks(nodes, Tail(ids), PutKey(idx, key, Head(ids)))

Outcome(st, outcome) == [st |-> st, outcome |-> outcome]

MsgBlockNotFound == <<"Sync warning: A previously synced block could not be found.">>
MsgSectionMissing == <<"Sync warning: Bookmarks section missing for a synced book.">>

\* getBlock of the book block returned null: warn and go to the next file
BlockNotFound(st, existing_block) ==
  Outcome(ShowErrorToUser(st, MsgBlockNotFound), "warning")

\* a variant that repairs the book block instead of warning
BookmarksSectionRepaired(st, existing_block) ==
  Outcome(CreateBookmarksSection(st, existing_block), "warning")

\* the book block has no "### Bookmarks" child: warn and go to the next file
BookmarksSectionMissing(st, existing_block) ==
  Outcome(ShowErrorToUser(st, MsgSectionMissing), "warning")

\* body gives the ambient settings the builder reads, settings the ones the
\* orchestrator read when the run started
SingleFile(st, file, settings, ambient, existingBlocks, targetBlock) ==
  IF file.bad THEN Outcome(st, "throw")
  ELSE LET parsed_block == MetadataToBlock(file, ambient)
           key == BookKey(parsed_block.authors, Substring(parsed_block.content, 3))
       IN IF parsed_block = NullBlock THEN Outcome(Increment(st), "nodata")
          ELSE IF ~HasKey(existingBlocks, key)
          THEN Outcome(Increment(InsertBlockTree(st, targetBlock, parsed_block)), "synced")
          ELSE IF GetKey(existingBlocks, key) \notin DOMAIN st.nodes
          THEN BlockNotFound(st, GetKey(existingBlocks, key))
          ELSE LET section == FindBookmarksBlock(st.nodes, GetKey(existingBlocks, key))
               IN IF section = NoId
                  THEN BookmarksSectionMissing(st, GetKey(existingBlocks, key))
                  ELSE LET indexed == IndexExistingSingle(st, st.nodes[section].kids,
                                                          <<>>, settings)
                       IN IF parsed_block.children = <<>>
                          THEN Outcome(indexed.st, "throw")
                          ELSE Outcome(
                                 Increment(ReconcileBookmarksSingle(
                                   indexed.st, indexed.idx,
                                   parsed_block.children[1].children, section)),
                                 "synced")

(***************************************************************************)
(* The per-file body of syncPerPageMode.                                   *)
(***************************************************************************)
\* the catch block logs to the console only; every path but the early
\* continue ends with the increment after the try statement
PerPageFile(st, file, settings) ==
  IF file.bad THEN Outcome(Increment(st), "error")
  ELSE IF file.entries = <<>> THEN Outcome(Increment(st), "nodata")
  ELSE LET st1 == GetOrCreateBookPage(st, file, settings)
           name == BookPageName(file, settings)
       IN IF name \notin DOMAIN st1.pages THEN Outcome(st1, "synced")
          ELSE LET page == st1.pages[name]
                   st2 == CreateBookmarksSection(st1, page)
               IN Outcome(Increment(SyncBookmarksToPage(st2, file, page, settings)),
                          "synced")

(***************************************************************************)
(* updateIndexPage: the index page is cleared and written again from the   *)
(* books of the pass (books holds their page names).                       *)
(***************************************************************************)
IndexPageName == <<"KOReader Books">>
IndexTitle == <<"# KOReader Books Index">>
LastSynced == <<"Last synced: ">>
Digit(n) == <<"0", "1", "2", "3", "4", "5", "6", "7", "8", "9">>[n + 1]
AllBooksHeading(n) == <<"## All Books (", Digit(n), ")">>
BookLink(pageName) == <<"[[">> \o pageName \o <<"]]">>

IndexBlocks(books) ==
  Block(IndexTitle, Absent,
        << Block(LastSynced, Absent, <<>>),
           Block(AllBooksHeading(Len(books)), Absent,
                 [k \in 1..Len(books) |-> Block(BookLink(books[k]), Absent, <<>>)]) >>)

\* the loop that removes the top-level blocks the page had
RECURSIVE RemoveBlocks(_, _)
RemoveBlocks(st, pageBlocks) ==
  IF pageBlocks = <<>> THEN st
  ELSE RemoveBlocks(RemoveBlock(st, Head(pageBlocks)), Tail(pageBlocks))

\* a variant that writes the new index under the blocks the page had
UpdateIndexPageAppending(st, books) ==
  LET st1 == IF IndexPageName \in DOMAIN st.pages THEN st
             ELSE CreatePage(st, IndexPageName, Absent)
  IN InsertBlockTree(st1, st1.pages[IndexPageName], IndexBlocks(books))

UpdateIndexPage(st, books) ==
  LET st1 == IF IndexPageName \in DOMAIN st.pages THEN st
             ELSE CreatePage(st, IndexPageName, Absent)
      indexPage == st1.pages[IndexPageName]
  IN InsertBlockTree(RemoveBlocks(st1, st1.nodes[indexPage].kids), indexPage,
                     IndexBlocks(books))

(***************************************************************************)
(* State.                                                                  *)
(***************************************************************************)
VARIABLES
  settings,   \* logseq.settings
  files,      \* the metadata files of the chosen directory, in enumeration order
  nodes,      \* the store: id -> node
  pages,      \* the store: page name -> id of the page
  next,       \* the next fresh id of the store
  index,      \* the book list of the index page (per-book mode)
  run,        \* the locals of the sync run in progress or last ended
  last,       \* the file processed last: store before it, mutations, outcome
  since,      \* what happened since the last run ended
  expect,     \* after an interrupted run: what it would have left behind
  runs,       \* sync runs started
  changes,    \* edits of the source, the settings and the graph made so far
  host        \* outside the graph: the directory the user picks, the handle in
              \* key-value storage, the settings listener, the position of
              \* syncKOReader before the loop

vars ==
  <<settings, files, nodes, pages, next, index, run, last, since, expect, runs, changes, host>>

SyncPageName == <<"_logseq-koreader-sync">>
WarningContent == <<"BEGIN_WARNING">>
StatusSelect == <<"LKRS", "Please Select KOReader Metadata Directory">>
StatusProcessing == <<"LKRS", "Processing KOReader Annotations">>
StatusDone == <<"LKRS", "Sync Initiated at">>
StatusCancelled == <<"LKRS", "Sync cancelled by user.">>
MsgPickFailed == <<"Failed to select KOReader directory. Please try again.">>
MsgQueryFailed ==
  <<"Failed to query existing blocks. Please check your database and try again.">>

Includes(content, c) == \E k \in 1..Len(content) : content[k] = c

NoLast ==
  [i |-> 0, pre |-> <<>>, log |-> <<>>, outcome |-> "none", shown |-> <<>>, counted |-> 0,
   fault |-> "none"]
NoRun ==
  [phase |-> "idle", i |-> 0, cfg |-> [syncPageBookmarks |-> TRUE, syncMode |-> "per-page",
                                       pageNamingConvention |-> "author_title",
                                       bookPagePrefix |-> <<>>],
   existingBlocks |-> <<>>, target |-> NoId, allBooks |-> <<>>, progress |-> 0,
   repeat |-> FALSE, recover |-> FALSE, shown |-> <<>>]

\* the specifications of the store leave the host side out: the files are
\* given as enumerated and parsed
\* loading is the flag of syncKOReader; invoked, pending, entered and ended
\* count its invocations: all, those waiting for getUserConfigs, those that
\* have set the flag, and those of the latter that have ended
NoHost ==
  [directory |-> <<>>, storage |-> FALSE, listening |-> FALSE, phase |-> "idle",
   loading |-> FALSE, invoked |-> 0, pending |-> 0, entered |-> 0, ended |-> 0]

Store(budget) ==
  [nodes |-> nodes, pages |-> pages, next |-> next, log |-> <<>>, budget |-> budget,
   msgs |-> <<>>, counted |-> 0]

Init ==
  /\ settings \in Settings
  /\ files \in Batches
  /\ nodes = <<>>
  /\ pages = <<>>
  /\ next = 1
  /\ index = <<>>
  /\ run = NoRun
  /\ last = NoLast
  /\ since = "none"
  /\ expect = <<>>
  /\ runs = 0
  /\ changes = 0
  /\ host = NoHost

(***************************************************************************)
(* Start of a run: syncKOReader reads the settings and enters the sync     *)
(* function of the chosen mode, which runs up to its loop over the files.  *)
(***************************************************************************)
\* the last top-level block that includes "LKRS", NoId when there is none
FindTargetBlock(ns, page) ==
  LET kids == ns[page].kids
      hits == {k \in 1..Len(kids) : Includes(ns[kids[k]].text, "LKRS")}
  IN IF hits = {} THEN NoId ELSE kids[CHOOSE k \in hits : \A h \in hits : k >= h]

\* a variant that looks at the last top-level block only
WarningBlockFoundLast(ns, page) ==
  /\ ns[page].kids # <<>>
  /\ ~Includes(ns[ns[page].kids[Len(ns[page].kids)]].text, "LKRS")
  /\ Includes(ns[ns[page].kids[Len(ns[page].kids)]].text, "BEGIN_WARNING")

WarningBlockFound(ns, page) ==
  \E k \in 1..Len(ns[page].kids) :
    /\ ~Includes(ns[ns[page].kids[k]].text, "LKRS")
    /\ Includes(ns[ns[page].kids[k]].text, "BEGIN_WARNING")

\* syncSinglePageMode up to the directory selection: the sync page is
\* opened (the host creates it when missing), the warning and the LKRS
\* block are ensured
SinglePageStatusBlock(st) ==
  LET st1 == IF SyncPageName \in DOMAIN st.pages THEN st
             ELSE CreatePage(st, SyncPageName, Absent)
      page == st1.pages[SyncPageName]
      st2 == IF WarningBlockFound(st1.nodes, page) THEN st1
             ELSE InsertBlockTree(st1, page, Block(WarningContent, Absent, <<>>))
      targetBlock == FindTargetBlock(st2.nodes, page)
      st3 == IF targetBlock = NoId THEN InsertBlock(st2, page, StatusSelect, NoProperties)
             ELSE UpdateBlock(st2, targetBlock, StatusSelect)
      target == IF targetBlock = NoId THEN st2.next ELSE targetBlock
  IN [st |-> st3, target |-> target,
      original_content |-> IF targetBlock = NoId THEN Absent ELSE st2.nodes[targetBlock].text]

\* syncSinglePageMode up to the query for the existing books
SinglePagePreamble(st) ==
  LET p == SinglePageStatusBlock(st)
  IN [st |-> UpdateBlock(p.st, p.target, StatusProcessing), target |-> p.target]

\* the directory picker of syncKOReader throws: a message, nothing else
PickFailed(st) == ShowErrorToUser(st, MsgPickFailed)

\* the directory picker of syncSinglePageMode throws: the status block gets
\* its former content back and a message is shown
SinglePagePickFailed(st) ==
  LET p == SinglePageStatusBlock(st)
  IN ShowErrorToUser(
       UpdateBlock(p.st, p.target,
                   IF p.original_content # Absent THEN p.original_content
                   ELSE StatusCancelled),
       MsgPickFailed)

\* a variant of the failing query that returns without a message
QueryFailedSilently(st) == SinglePagePreamble(st).st

\* the datascript query for the existing books throws
QueryFailed(st) == ShowErrorToUser(SinglePagePreamble(st).st, MsgQueryFailed)

\* what can fail before the loop over the files
StartFailures(mode) ==
  IF mode = "per-page" THEN {"pick"} ELSE {"pick", "pick-single", "query"}

\* the store state a failure before the loop leaves
StartFailure(st, failure) ==
  IF failure = "pick" THEN PickFailed(st)
  ELSE IF failure = "pick-single" THEN SinglePagePickFailed(st)
  ELSE QueryFailed(st)

\* a run that ends before its loop
StartFails ==
  /\ run.phase # "loop"
  /\ runs < MaxRuns
  /\ runs' = runs + 1
  /\ last' = NoLast
  /\ since' = "fatal"
  /\ \E failure \in StartFailures(settings.syncMode) :
       \E st \in {StartFailure(Store(Unlimited), failure)} :
          /\ nodes' = st.nodes
          /\ pages' = st.pages
          /\ next' = st.next
          /\ run' = [NoRun EXCEPT !.phase = "fatal", !.cfg = settings, !.shown = st.msgs]
  /\ UNCHANGED <<settings, files, index, expect, changes, host>>

Start ==
  /\ run.phase # "loop"
  /\ runs < MaxRuns
  /\ runs' = runs + 1
  /\ last' = NoLast
  /\ since' = "running"
  /\ IF settings.syncMode = "per-page"
     THEN /\ run' = [NoRun EXCEPT !.phase = "loop", !.i = 1, !.cfg = settings,
                                  !.repeat = (since = "done"),
                                  !.recover = (since = "crashed")]
          /\ UNCHANGED <<nodes, pages, next>>
     ELSE \E pre \in {SinglePagePreamble(Store(Unlimited))} :
             /\ nodes' = pre.st.nodes
             /\ pages' = pre.st.pages
             /\ next' = pre.st.next
             /\ run' = [NoRun EXCEPT
                          !.phase = "loop", !.i = 1, !.cfg = settings,
                          !.target = pre.target,
                          !.existingBlocks =
                            ExistingBlocks(pre.st.nodes, pre.st.nodes[pre.target].kids, <<>>),
                          !.repeat = (since = "done"),
                          !.recover = (since = "crashed")]
  /\ UNCHANGED <<settings, files, index, expect, changes, host>>

(***************************************************************************)
(* The loop over the files, one file per step, and the end of the run.     *)
(***************************************************************************)
\* the loop body of the run's mode on file i, from store state st
FileStep(st, i) ==
  IF run.cfg.syncMode = "per-page"
  THEN PerPageFile(st, files[i], run.cfg)
  ELSE SingleFile(st, files[i], run.cfg, settings, run.existingBlocks, run.target)

\* the rest of the loop from file i on; an uncaught throw ends it
RECURSIVE RunRest(_, _)
RunRest(st, i) ==
  IF i > Len(files) THEN st
  ELSE LET r == FileStep(st, i)
       IN IF r.outcome = "throw" THEN r.st ELSE RunRest(r.st, i + 1)

\* the text trees of the store, without ids; the LKRS block by its marker
RECURSIVE Shape(_, _)
Shape(ns, id) ==
  [text |-> IF Includes(ns[id].text, "LKRS") THEN <<"LKRS">> ELSE ns[id].text,
   kids |-> [k \in 1..Len(ns[id].kids) |-> Shape(ns, ns[id].kids[k])]]

StoreShape(ns, ps) == [name \in DOMAIN ps \ {IndexPageName} |-> Shape(ns, ps[name])]

ProcessFile ==
  /\ run.phase = "loop"
  /\ run.i <= Len(files)
  /\ \E r \in {FileStep(Store(Unlimited), run.i)} :
        /\ nodes' = r.st.nodes
        /\ pages' = r.st.pages
        /\ next' = r.st.next
        /\ last' = [i |-> run.i, pre |-> nodes, log |-> r.st.log, outcome |-> r.outcome,
                     shown |-> r.st.msgs, counted |-> r.st.counted, fault |-> "none"]
        /\ run' = [run EXCEPT
                     !.i = @ + 1,
                     !.phase = IF r.outcome = "throw" THEN "aborted" ELSE "loop",
                     !.progress = @ + r.st.counted,
                     !.allBooks = IF run.cfg.syncMode = "per-page" /\ r.outcome = "synced"
                                  THEN Append(@, BookPageName(files[run.i], run.cfg))
                                  ELSE @]
        /\ since' = IF r.outcome = "throw" THEN "aborted" ELSE since
  /\ UNCHANGED <<settings, files, index, expect, runs, changes, host>>

\* the run is interrupted (the application is closed) while file i is being
\* processed, after a proper prefix of the mutations of that file
CrashFile ==
  /\ run.phase = "loop"
  /\ run.i <= Len(files)
  /\ runs < MaxRuns
  /\ \E k \in 0..(Len(FileStep(Store(Unlimited), run.i).st.log) - 1) :
       \E r \in {FileStep(Store(k), run.i)}, whole \in {RunRest(Store(Unlimited), run.i)} :
          /\ nodes' = r.st.nodes
          /\ pages' = r.st.pages
          /\ next' = r.st.next
          /\ last' = [i |-> run.i, pre |-> nodes, log |-> r.st.log, outcome |-> "crashed",
                       shown |-> r.st.msgs, counted |-> r.st.counted, fault |-> "none"]
          /\ expect' = StoreShape(whole.nodes, whole.pages)
  /\ run' = [run EXCEPT !.phase = "crashed"]
  /\ since' = "crashed"
  /\ UNCHANGED <<settings, files, index, runs, changes, host>>

\* a variant of the end of the run that does not wait for the last file
FinishEarly ==
  /\ run.phase = "loop"
  /\ run.i >= 1
  /\ run' = [run EXCEPT !.phase = "done"]
  /\ since' = "done"
  /\ IF run.cfg.syncMode = "per-page"
     THEN \E st \in {UpdateIndexPage(Store(Unlimited), run.allBooks)} :
             /\ index' = run.allBooks
             /\ nodes' = st.nodes
             /\ pages' = st.pages
             /\ next' = st.next
     ELSE LET st == UpdateBlock(Store(Unlimited), run.target, StatusDone)
          IN /\ nodes' = st.nodes
             /\ UNCHANGED <<pages, next, index>>
  /\ UNCHANGED <<settings, files, last, expect, runs, changes, host>>

\* after the last file: updateIndexPage (per-book mode) or the final status
Finish ==
  /\ run.phase = "loop"
  /\ run.i > Len(files)
  /\ run' = [run EXCEPT !.phase = "done"]
  /\ since' = "done"
  /\ IF run.cfg.syncMode = "per-page"
     THEN \E st \in {UpdateIndexPage(Store(Unlimited), run.allBooks)} :
             /\ index' = run.allBooks
             /\ nodes' = st.nodes
             /\ pages' = st.pages
             /\ next' = st.next
     ELSE LET st == UpdateBlock(Store(Unlimited), run.target, StatusDone)
          IN /\ nodes' = st.nodes
             /\ UNCHANGED <<pages, next, index>>
  /\ UNCHANGED <<settings, files, last, expect, runs, changes, host>>

(***************************************************************************)
(* Between two runs: the reader changes the annotations on the device, the *)
(* user changes a setting or edits the graph by hand.                      *)
(***************************************************************************)
Between == run.phase \in {"done", "aborted"} /\ changes < MaxChanges /\ runs < MaxRuns

MainIndex == CHOOSE i \in 1..Len(files) : ~files[i].bad /\ files[i].book = MainBook

PoolOf(file) == IF file.fmt = "bookmarks" THEN LegacyPool ELSE EntryPool

RemoveAt(s, j) == [k \in 1..(Len(s) - 1) |-> IF k < j THEN s[k] ELSE s[k + 1]]

EditSource ==
  /\ Between
  /\ files[MainIndex].fmt # "absent"
  /\ LET es == files[MainIndex].entries
     IN \E new \in
            {RemoveAt(es, j) : j \in 1..Len(es)}
              \cup {Append(es, e) : e \in {x \in PoolOf(files[MainIndex]) : Len(es) < MaxEntries}}
              \cup {[es EXCEPT ![j].note = n] : j \in 1..Len(es), n \in {Absent, NoteN, NoteM}} :
          /\ new # es
          /\ files' = [files EXCEPT ![MainIndex].entries = new]
  /\ changes' = changes + 1
  /\ since' = "changed"
  /\ UNCHANGED <<settings, nodes, pages, next, index, run, last, expect, runs, host>>

ToggleSetting ==
  /\ Between
  /\ settings' = [settings EXCEPT !.syncPageBookmarks = ~@]
  /\ changes' = changes + 1
  /\ since' = "changed"
  /\ UNCHANGED <<files, nodes, pages, next, index, run, last, expect, runs, host>>

\* the entry blocks: the children of the "### Bookmarks" blocks
Sections(ns) == {id \in DOMAIN ns : ns[id].text = BookmarksHeading}
EntryNodes(ns) == {id \in DOMAIN ns : ns[id].parent \in Sections(ns)}

\* the user adds a block of their own under a synced entry, before or
\* after its children, or under a "### Bookmarks" block
UserAddBlock ==
  /\ Between
  /\ \E parent \in EntryNodes(nodes) \cup Sections(nodes), first \in BOOLEAN :
       /\ first => nodes[parent].kids # <<>> /\ parent \in EntryNodes(nodes)
       /\ nodes' = (next :> Node(UserText, parent, Absent, "user"))
                     @@ [nodes EXCEPT ![parent].kids =
                           IF first THEN <<next>> \o @ ELSE Append(@, next)]
  /\ next' = next + 1
  /\ changes' = changes + 1
  /\ since' = "changed"
  /\ UNCHANGED <<settings, files, pages, index, run, last, expect, runs, host>>

Next == Start \/ StartFails \/ ProcessFile \/ CrashFile \/ Finish \/ EditSource \/ ToggleSetting \/ UserAddBlock

Spec == Init /\ [][Next]_vars

(***************************************************************************)
(* Vocabulary of the properties.  After ProcessFile, last holds the store  *)
(* before the file (pre), the mutations issued for it (log) and how the    *)
(* loop body ended.                                                        *)
(***************************************************************************)
Processed == last.i > 0 /\ last.outcome \notin {"none", "crashed"} /\ since # "changed"
Reconciled == Processed /\ last.outcome = "synced"
LastFile == files[last.i]
PerPage == run.cfg.syncMode = "per-page"
Legacy(file) == file.fmt = "bookmarks"
LogSet == {last.log[k] : k \in 1..Len(last.log)}

\* the fresh entries that survive filtering, as the blocks the run builds
FreshBlocks(file) ==
  IF PerPage
  THEN {PerPageBookmarkBlock(e, Legacy(file)) :
          e \in {file.entries[j] : j \in {j \in 1..Len(file.entries) :
                   /\ ~FreshKeySkipped(file.entries[j], Legacy(file))
                   /\ (Legacy(file) \/ file.entries[j].pos0 \/ run.cfg.syncPageBookmarks)}}}
  ELSE LET b == MetadataToBlock(file, run.cfg)
       IN IF b = NullBlock \/ b.children = <<>> THEN {}
          ELSE {b.children[1].children[j] : j \in 1..Len(b.children[1].children)}

\* the entry key of the specification: the entry text without its marker
EntryKey(content) == Substring(content, 2)
FreshKeys(file) == {EntryKey(b.content) : b \in FreshBlocks(file)}

\* the book's "### Bookmarks" block in store ns, NoId when it has none
BookSection(ns, file) ==
  IF PerPage
  THEN IF BookPageName(file, run.cfg) \in DOMAIN pages
            /\ pages[BookPageName(file, run.cfg)] \in DOMAIN ns
       THEN FindBookmarksBlock(ns, pages[BookPageName(file, run.cfg)])
       ELSE NoId
  ELSE LET b == MetadataToBlock(file, run.cfg)
           key == BookKey(b.authors, Substring(b.content, 3))
       IN IF b # NullBlock /\ HasKey(run.existingBlocks, key)
               /\ GetKey(run.existingBlocks, key) \in DOMAIN ns
          THEN FindBookmarksBlock(ns, GetKey(run.existingBlocks, key))
          ELSE NoId

ChildrenOf(ns, parent) == {id \in DOMAIN ns : parent # NoId /\ ns[id].parent = parent}

\* the entries a former sync wrote under the book's section, before the file
PreEntries ==
  {id \in ChildrenOf(last.pre, BookSection(last.pre, LastFile)) : last.pre[id].by = "sync"}

Mutated(id) == \E m \in LogSet : m.id = id
Removed(id) == \E m \in LogSet : m.id = id /\ m.op = "remove"

HasMarker(content) == Len(content) >= 2 /\ SubSeq(content, 1, 2) = QuoteMarker

(***************************************************************************)
(* C1. Idempotence: in a run that follows a completed run with the source, *)
(* the settings and the graph unchanged, no file issues a mutation.        *)
(***************************************************************************)
C1_Idempotence == (run.repeat /\ Processed) => last.log = <<>>

(***************************************************************************)
(* C2. Key symmetry: for every entry the run writes, the key derived on    *)
(* the existing side from the stored text equals the key derived on the    *)
(* fresh side from the entry.                                              *)
(***************************************************************************)
C2_KeySymmetry ==
  Reconciled =>
    \A j \in 1..Len(LastFile.entries) :
      LET e == LastFile.entries[j]
          legacy == Legacy(LastFile)
      IN IF PerPage
         THEN (~FreshKeySkipped(e, legacy)) =>
                ExistingKeyPerPage(PerPageBookmarkBlock(e, legacy).content)
                  = FreshKeyPerPage(e, legacy)
         ELSE LET b == IF legacy THEN LegacyBlock(e) ELSE AnnotationBlock(e)
              IN ExistingKeySingle(b.content) = FreshKeySingle(b)

(***************************************************************************)
(* C3. Stale deletion: when the reconciliation of a previously synced book *)
(* completes, every existing entry whose key has no counterpart among the  *)
(* fresh entries is gone, and every other existing entry is not mutated.   *)
(***************************************************************************)
C3_StaleDeletion ==
  Reconciled =>
    \A id \in PreEntries :
      IF EntryKey(last.pre[id].text) \in FreshKeys(LastFile)
      THEN id \in DOMAIN nodes /\ ~Mutated(id)
      ELSE id \notin DOMAIN nodes

(***************************************************************************)
(* C4. Only stale entries are deleted: no existing entry whose key has a   *)
(* counterpart among the fresh entries is removed.                         *)
(***************************************************************************)
C4_OnlyStaleDeleted ==
  Reconciled =>
    \A id \in PreEntries :
      EntryKey(last.pre[id].text) \in FreshKeys(LastFile) => ~Removed(id)

(***************************************************************************)
(* C5. Note reconciliation of a matched entry, for every entry of the      *)
(* graph and every fresh note: a synced note with no fresh note is the one *)
(* node removed and the entry stays; a differing note is updated in place  *)
(* with no insert; an equal note gives no mutation; a fresh note with no   *)
(* synced note gives exactly one insert; afterwards the entry has at most  *)
(* one synced note.                                                        *)
(***************************************************************************)
FreshNotes == {<<>>, <<Block(NoteN, Absent, <<>>)>>, <<Block(Escape(NoteM), Absent, <<>>)>>}
SyncedNotes(ns, entry) ==
  {ns[entry].kids[k] : k \in {k \in 1..Len(ns[entry].kids) : ns[ns[entry].kids[k]].by = "sync"}}

C5_NoteReconciliation ==
  \A entry \in EntryNodes(nodes) : \A personal_note \in FreshNotes :
    LET r == ReconcileNote(Store(Unlimited), entry, personal_note)
        old == SyncedNotes(nodes, entry)
    IN /\ Cardinality(SyncedNotes(r.nodes, entry)) <= 1
       /\ (personal_note = <<>> /\ old # {}) =>
            /\ Len(r.log) = 1 /\ r.log[1].op = "remove" /\ r.log[1].id \in old
            /\ entry \in DOMAIN r.nodes
       /\ (personal_note # <<>> /\ old # {}) =>
            \E n \in old :
              IF nodes[n].text = personal_note[1].content
              THEN r.log = <<>>
              ELSE r.log = <<Mutation("update", n, entry, personal_note[1].content)>>
       /\ (personal_note # <<>> /\ old = {}) =>
            /\ Len(r.log) = 1 /\ r.log[1].op = "insert" /\ r.log[1].parent = entry
            /\ r.log[1].text = personal_note[1].content

(***************************************************************************)
(* C6. Manual blocks: a block the user added under a synced entry is still *)
(* there, with its text, after the file is processed, whenever the entry   *)
(* itself is still there.                                                  *)
(***************************************************************************)
C6_ManualBlocksKept ==
  Processed =>
    \A id \in DOMAIN last.pre :
      (/\ last.pre[id].by = "user"
       /\ last.pre[id].parent \in EntryNodes(last.pre)
       /\ last.pre[id].parent \in DOMAIN nodes)
      => (id \in DOMAIN nodes /\ nodes[id] = last.pre[id])

(***************************************************************************)
(* C7. Foreign section children: a child of the bookmarks section whose    *)
(* text has no entry marker is neither updated nor deleted by the          *)
(* reconciliation of the book.                                             *)
(***************************************************************************)
C7_ForeignChildrenSkipped ==
  Reconciled =>
    \A id \in ChildrenOf(last.pre, BookSection(last.pre, LastFile)) :
      ~HasMarker(last.pre[id].text) =>
        (id \in DOMAIN nodes /\ nodes[id] = last.pre[id] /\ ~Mutated(id))

C9_ErrorIsolation ==
  (Processed /\ last.outcome \in {"error", "throw"}) => run.phase \in {"loop", "done"}

(***************************************************************************)
(* C10. Crash convergence: the run that follows a run interrupted between  *)
(* two store mutations ends in the graph the uninterrupted run would have  *)
(* produced, hence with no duplicated entry or note.                      *)
(***************************************************************************)
C10_CrashConvergence ==
  (run.recover /\ run.phase = "done") => StoreShape(nodes, pages) = expect

\* the book's "### Bookmarks" block after the file, also when the book block
\* was inserted by this file
SectionAfter ==
  IF BookSection(nodes, LastFile) # NoId THEN BookSection(nodes, LastFile)
  ELSE IF ~PerPage /\ last.log # <<>> /\ last.log[1].op = "insert"
            /\ last.log[1].parent = run.target /\ last.log[1].id \in DOMAIN nodes
       THEN FindBookmarksBlock(nodes, last.log[1].id)
       ELSE NoId

(***************************************************************************)
(* C11. Key collision: after a book is reconciled, its bookmarks section   *)
(* holds exactly one entry node for every key of the fresh entries, also   *)
(* when several source entries derive that key.                            *)
(***************************************************************************)
C11_OneNodePerKey ==
  Reconciled =>
    \A key \in FreshKeys(LastFile) :
      Cardinality({id \in ChildrenOf(nodes, SectionAfter) :
                     EntryKey(nodes[id].text) = key}) = 1

\* the bookKey of a top-level book section of the sync container
SectionBookKey(ns, id) == BookKey(ns[id].authors, TitleMatch(ns[id].text))

(***************************************************************************)
(* C12. In single-container mode the sync container holds at most one      *)
(* top-level book section per bookKey, whatever files and runs came        *)
(* before: books without authors and files of one batch with the same key  *)
(* included.                                                               *)
(***************************************************************************)
C12_OneSectionPerBook ==
  (~PerPage /\ Processed) =>
    \A a, b \in ChildrenOf(nodes, run.target) :
      a # b => SectionBookKey(nodes, a) # SectionBookKey(nodes, b)

(***************************************************************************)
(* C13. In per-book mode every book has its own container: a file of a     *)
(* book with other authors or another title has another page than the      *)
(* file just reconciled, and none of the entries under that page's section *)
(* is removed or changed by the reconciliation.                            *)
(***************************************************************************)
C13_OwnContainer ==
  (PerPage /\ Reconciled) =>
    \A j \in 1..Len(files) :
      (~files[j].bad /\ files[j].book # LastFile.book) =>
        /\ BookPageName(files[j], run.cfg) # BookPageName(LastFile, run.cfg)
        /\ \A id \in ChildrenOf(last.pre, BookSection(last.pre, files[j])) : ~Mutated(id)

\* the pages of the files from file i on that the pass reconciles: the
\* files that are read and hold annotations or bookmarks
RECURSIVE BooksOfPass(_)
BooksOfPass(i) ==
  IF i > Len(files) THEN <<>>
  ELSE (IF ~files[i].bad /\ files[i].entries # <<>>
        THEN <<BookPageName(files[i], run.cfg)>> ELSE <<>>) \o BooksOfPass(i + 1)

IndexRunDone == PerPage /\ run.phase = "done" /\ since = "done"

(***************************************************************************)
(* C14. When a per-book run has completed, the index page holds what that  *)
(* run generated and nothing else: one top-level block, the index title,   *)
(* with the sync date and the "All Books (n)" heading under it; under the  *)
(* heading one link per book reconciled in the pass, in the order of the   *)
(* files, and n is the number of links.  Blocks of a former run are gone.  *)
(***************************************************************************)
C14_IndexRebuilt ==
  IndexRunDone =>
    /\ IndexPageName \in DOMAIN pages
    /\ LET top == nodes[pages[IndexPageName]].kids
       IN /\ Len(top) = 1
          /\ nodes[top[1]].text = IndexTitle
          /\ Len(nodes[top[1]].kids) = 2
          /\ LET dated == nodes[nodes[top[1]].kids[1]]
                 heading == nodes[nodes[top[1]].kids[2]]
                 links == [k \in 1..Len(heading.kids) |-> nodes[heading.kids[k]].text]
             IN /\ dated.text = LastSynced /\ dated.kids = <<>>
                /\ heading.text = AllBooksHeading(Len(links))
                /\ links = [k \in 1..Len(BooksOfPass(1)) |-> BookLink(BooksOfPass(1)[k])]
                /\ \A k \in 1..Len(links) : nodes[heading.kids[k]].kids = <<>>

\* a second completed run over two books: the index of the first run was
\* there and has been replaced
C14_Witness ==
  /\ IndexRunDone /\ run.repeat
  /\ Len(BooksOfPass(1)) = 2
  /\ nodes[pages[IndexPageName]].kids[1] > pages[IndexPageName] + 1

\* the fresh block of the entry stored in node id, when the file holds one
FreshOf(id) == {b \in FreshBlocks(LastFile) : EntryKey(b.content) = EntryKey(last.pre[id].text)}

(***************************************************************************)
(* C15. Reconciliation leaves a matched entry as it was stored: no update  *)
(* is issued on an entry node that was there before the file, and an entry *)
(* that is still there has the text and the properties it had, also when   *)
(* the fresh entry of its key has other values.  What changes is below the *)
(* entry.                                                                  *)
(***************************************************************************)
C15_MatchedEntryKept ==
  Reconciled =>
    \A id \in PreEntries :
      /\ ~\E m \in LogSet : m.op = "update" /\ m.id = id
      /\ id \in DOMAIN nodes =>
           /\ nodes[id].text = last.pre[id].text
           /\ nodes[id].collapsed = last.pre[id].collapsed
           /\ nodes[id].authors = last.pre[id].authors
           /\ nodes[id].parent = last.pre[id].parent

\* an entry matched by key whose fresh block is collapsed while the stored
\* one is not, and whose note was inserted by the file
C15_Witness ==
  /\ Reconciled
  /\ \E id \in PreEntries :
       /\ id \in DOMAIN nodes
       /\ \E b \in FreshOf(id) : b.collapsed # nodes[id].collapsed
       /\ \E m \in LogSet : m.op = "insert" /\ m.parent = id

(***************************************************************************)
(* C16. Every file that is skipped because its processing failed, and      *)
(* every run that ends before its loop, shows a message to the user        *)
(* (showErrorToUser), in both modes.                                       *)
(***************************************************************************)
C16_FailuresShown ==
  /\ (Processed /\ last.outcome \in {"error", "throw", "warning"}) => last.shown # <<>>
  /\ run.phase = "fatal" => run.shown # <<>>

\* the blocks a run writes before its loop: the sync page, and the warning
\* and status blocks right under it
StatusNodes(ns, ps) ==
  IF SyncPageName \in DOMAIN ps
  THEN {ps[SyncPageName]} \cup ChildrenOf(ns, ps[SyncPageName])
  ELSE {}

(***************************************************************************)
(* C17. A run that fails before its loop (the directory selection, or the  *)
(* query for the existing books in single-container mode) is over at that  *)
(* point: no file is processed, every node of the store other than the     *)
(* sync page and its warning and status blocks is as it was, no node is    *)
(* added elsewhere, the books under the status block are the same, and an  *)
(* error message is shown.                                                 *)
(***************************************************************************)
C17_StartFailureFatal ==
  [][(runs' = runs + 1 /\ run'.phase = "fatal") =>
       /\ last' = NoLast /\ run'.i = 0 /\ run'.progress = 0
       /\ run'.shown # <<>>
       /\ \A id \in DOMAIN nodes :
            /\ id \in DOMAIN nodes'
            /\ nodes'[id].kids # nodes[id].kids => id = pages'[SyncPageName]
            /\ nodes'[id] # nodes[id] => id \in StatusNodes(nodes', pages')
       /\ \A id \in DOMAIN nodes' \ DOMAIN nodes :
            /\ id \in StatusNodes(nodes', pages')
            /\ nodes'[id].kids # <<>> => id = pages'[SyncPageName]
       /\ DOMAIN pages' \ DOMAIN pages \subseteq {SyncPageName}]_vars

\* the query failed in a run over a container that holds a synced book
C17_Witness ==
  /\ run.phase = "fatal" /\ ~PerPage
  /\ run.shown = <<MsgQueryFailed>>
  /\ Sections(nodes) # {}

\* the file just processed is of a book the query found, whose block is
\* gone or has no "### Bookmarks" child
SectionUnavailable ==
  /\ ~PerPage /\ Processed /\ ~LastFile.bad
  /\ LET b == MetadataToBlock(LastFile, run.cfg)
     IN /\ b # NullBlock
        /\ HasKey(run.existingBlocks, BookKey(b.authors, Substring(b.content, 3)))
  /\ BookSection(last.pre, LastFile) = NoId

(***************************************************************************)
(* C18. In single-container mode a file of a synced book whose block       *)
(* cannot be fetched, or has no "### Bookmarks" child, changes nothing in  *)
(* the store; a warning is shown and the run goes on to the next file.     *)
(***************************************************************************)
C18_MissingSectionSkipped ==
  SectionUnavailable =>
    /\ last.log = <<>>
    /\ run.phase = "loop" => nodes = last.pre
    /\ last.shown \in {<<MsgBlockNotFound>>, <<MsgSectionMissing>>}
    /\ run.phase \in {"loop", "done"}
    /\ run.i = last.i + 1

\* the warning is given for the first file of two, and the loop is at the
\* second
C18_Witness ==
  /\ SectionUnavailable
  /\ last.i < Len(files)
  /\ run.phase = "loop"

\* the file just processed holds nothing to import: the builder returns
\* null for it, or (per-book mode) it has neither annotations nor bookmarks
NoImportableData ==
  /\ Processed /\ ~LastFile.bad
  /\ \/ MetadataToBlock(LastFile, run.cfg) = NullBlock
     \/ PerPage /\ LastFile.entries = <<>>

(***************************************************************************)
(* C19. A file without importable data causes no mutation of the store (no *)
(* page, section, entry or note) and is counted once as processed.         *)
(***************************************************************************)
C19_NoDataNoMutation ==
  NoImportableData =>
    /\ last.log = <<>>
    /\ run.phase = "loop" => nodes = last.pre
    /\ last.counted = 1

HasPageOnlyEntry(file) ==
  file.fmt = "annotations" /\ \E j \in 1..Len(file.entries) : ~file.entries[j].pos0

(***************************************************************************)
(* C21. With syncPageBookmarks off the builder drops the page-only         *)
(* entries: for a file with annotations the result is a book block, not    *)
(* null, and no child of its "### Bookmarks" block is "> Page bookmark".   *)
(***************************************************************************)
C21_PageBookmarksDropped ==
  \A i \in 1..Len(files), cfg \in Settings :
    (/\ ~cfg.syncPageBookmarks
     /\ files[i].fmt = "annotations" /\ ~files[i].book.empty /\ files[i].entries # <<>>) =>
      LET b == MetadataToBlock(files[i], cfg)
      IN /\ b # NullBlock
         /\ Len(b.children) = 1
         /\ b.children[1].content = BookmarksHeading
         /\ \A k \in 1..Len(b.children[1].children) :
              b.children[1].children[k].content # PageBookmarkContent

\* a file with a page-only entry was synced as a new book with the setting
\* off: the book block is written and no "> Page bookmark" with it
C21_Witness ==
  /\ ~PerPage /\ Reconciled /\ ~run.cfg.syncPageBookmarks
  /\ HasPageOnlyEntry(LastFile)
  /\ last.log # <<>> /\ last.log[1].text = HeadingMarker \o LastFile.book.title
  /\ \A m \in LogSet : m.text # PageBookmarkContent

\* every '-' of the text has a backslash before it
DashesEscaped(content) ==
  \A k \in 1..Len(content) : content[k] = "-" => k > 1 /\ content[k - 1] = "\\"

(***************************************************************************)
(* C22. Dash escaping: in every entry text and every note text that the    *)
(* sync of a file writes, from the annotations format or from the legacy   *)
(* bookmarks format, each '-' has a backslash before it.                   *)
(***************************************************************************)
C22_DashesEscaped ==
  Reconciled =>
    \A m \in LogSet :
      (m.op \in {"insert", "update"} /\ m.parent # NoId) => DashesEscaped(m.text)

(***************************************************************************)
(* Page names.  A second specification draws the doc_props of one book and *)
(* the naming settings from the sets below and calls getOrCreateBookPage   *)
(* for it twice: the first call creates the page, the second looks it up.  *)
(* The titles are the strings of up to MaxNameLen characters over          *)
(* NameAlphabet, alone or after a run of letters that brings the name to   *)
(* the length limit.                                                       *)
(***************************************************************************)
MaxNameLen == 3
NameAlphabet == {"a", " ", "\t", "?"}
Pad(n) == [k \in 1..n |-> "x"]
NameTitles ==
  {pre \o t : pre \in {<<>>, Pad(MaxPageNameLength - 2)}, t \in SeqsUpTo(NameAlphabet, MaxNameLen)}
NameAuthors == {Absent, <<"A">>, <<"A", "\\\n", "B">>}
NameBooks == {Book(t, a) : t \in NameTitles, a \in NameAuthors}
NameSettings ==
  [syncPageBookmarks : {TRUE}, syncMode : {"per-page"},
   pageNamingConvention : {"author_title", "book_title"},
   bookPagePrefix : {<<>>, <<"p", " ">>}]

NameInit ==
  /\ settings \in NameSettings
  /\ files \in {<<File(b, "annotations", <<Entry(TRUE, PlainText, Absent)>>)>> : b \in NameBooks}
  /\ nodes = <<>>
  /\ pages = <<>>
  /\ next = 1
  /\ index = <<>>
  /\ run = NoRun
  /\ last = NoLast
  /\ since = "none"
  /\ expect = <<>>
  /\ runs = 0
  /\ changes = 0
  /\ host = NoHost

\* one call of getOrCreateBookPage for the book of the directory
GetBookPage ==
  /\ runs < 2
  /\ runs' = runs + 1
  /\ \E st \in {GetOrCreateBookPage(Store(Unlimited), files[1], settings)} :
       /\ nodes' = st.nodes
       /\ pages' = st.pages
       /\ next' = st.next
       /\ last' = [NoLast EXCEPT !.log = st.log]
  /\ UNCHANGED <<settings, files, index, run, since, expect, changes, host>>

NameNext == GetBookPage

NameSpec == NameInit /\ [][NameNext]_vars

\* the name generatePageName gives the book, and the name of its page
RawPageName == GeneratePageName(files[1].book, settings)
PageName == SanitizePageName(RawPageName)
PageCreated == runs > 0 /\ DOMAIN pages = {PageName}

WhitespaceRun(name) ==
  \E k \in 1..(Len(name) - 1) : name[k] \in Whitespace /\ name[k + 1] \in Whitespace

(***************************************************************************)
(* C23. The result of sanitizePageName has at most 100 characters, none of *)
(* them one of < > : " / \ | ? * # [ ], and no two whitespace characters   *)
(* in a row; the page of the book has such a name.                         *)
(***************************************************************************)
C23_SanitizedName ==
  /\ Len(PageName) <= MaxPageNameLength
  /\ \A k \in 1..Len(PageName) : PageName[k] \notin InvalidPageNameChars
  /\ ~WhitespaceRun(PageName)
  /\ runs > 0 => DOMAIN pages = {PageName}

\* the page was created for a raw name that is too long and holds a
\* stripped character and a run of whitespace
C23_Witness ==
  /\ PageCreated
  /\ Len(RawPageName) > MaxPageNameLength /\ Len(PageName) = MaxPageNameLength
  /\ \E k \in 1..Len(RawPageName) : RawPageName[k] \in InvalidPageNameChars
  /\ WhitespaceRun(RawPageName)

(***************************************************************************)
(* C24. The result of sanitizePageName neither starts nor ends with a      *)
(* whitespace character, and sanitizePageName applied to it gives it       *)
(* back; so it is for the name of the page created for the book.           *)
(***************************************************************************)
C24_SanitizeIdempotent ==
  PageCreated =>
    \A name \in DOMAIN pages :
      /\ name # <<>> => name[1] \notin Whitespace /\ name[Len(name)] \notin Whitespace
      /\ SanitizePageName(name) = name

\* the title that stands in the name of the book's page
NamedTitle == IF files[1].book.title = Absent THEN <<"Untitled Book">> ELSE files[1].book.title

(***************************************************************************)
(* C25. generatePageName gives prefix, authors, " - " and title when the   *)
(* convention is author_title and the book has authors (in their           *)
(* normalized form), and prefix and title otherwise; a missing title       *)
(* reads "Untitled Book".  The page of the book is created under the       *)
(* sanitized form of that name.                                            *)
(***************************************************************************)
C25_GeneratedName ==
  /\ RawPageName =
       IF settings.pageNamingConvention = "author_title" /\ files[1].book.authors # Absent
       THEN settings.bookPagePrefix \o NormalizeAuthors(files[1].book.authors)
              \o <<" ", "-", " ">> \o NamedTitle
       ELSE settings.bookPagePrefix \o NamedTitle
  /\ runs > 0 => DOMAIN pages = {SanitizePageName(RawPageName)}

\* a page created under prefix, authors and title
C25_Witness ==
  /\ PageCreated
  /\ settings.pageNamingConvention = "author_title" /\ settings.bookPagePrefix # <<>>
  /\ files[1].book.authors = <<"A">> /\ files[1].book.title = <<"a">>
  /\ DOMAIN pages = {<<"p", " ", "A", " ", "-", " ", "a">>}

(***************************************************************************)
(* The directory and the remembered handle.  A third specification models  *)
(* syncKOReader up to the enumeration of the metadata files: the settings  *)
(* listener, the handle kept in key-value storage, the directory picker    *)
(* (one step of its own: the user answers it) and walkDirectory over the   *)
(* picked directory.  A handle is a file or a directory with its entries   *)
(* in the order values() gives them; a name is a sequence of tokens, of    *)
(* which LowerToken knows the upper-case forms.                            *)
(***************************************************************************)
MaxDepth == 2
MaxFanout == 2

FileHandle(name) == [kind |-> "file", name |-> name, entries |-> <<>>]
DirectoryHandle(entries) == [kind |-> "directory", name |-> <<"book", ".sdr">>, entries |-> entries]
NoHandle == [kind |-> "none", name |-> <<>>, entries |-> <<>>]

FileNames ==
  { <<"metadata", ".epub", ".lua">>, <<"METADATA", ".pdf", ".LUA">>,
    <<"notes", ".lua">>, <<"metadata", ".lua", ".old">> }

\* the handles of depth up to d
RECURSIVE Handles(_)
Handles(d) ==
  {FileHandle(n) : n \in FileNames}
    \cup (IF d = 0 THEN {}
          ELSE {DirectoryHandle(es) : es \in SeqsUpTo(Handles(d - 1), MaxFanout)})

Roots == {DirectoryHandle(es) : es \in SeqsUpTo(Handles(MaxDepth - 1), MaxFanout)}

\* name.toLowerCase()
LowerToken(c) ==
  IF c = "METADATA" THEN "metadata" ELSE IF c = ".LUA" THEN ".lua" ELSE c
ToLowerCase(name) == [k \in 1..Len(name) |-> LowerToken(name[k])]

\* s.endsWith(pat), s.includes(pat)
EndsWith(s, pat) == Len(s) >= Len(pat) /\ SubSeq(s, Len(s) - Len(pat) + 1, Len(s)) = pat
StringIncludes(s, pat) == IndexOf(s, pat) # -1

\* walkDirectory: the File objects it yields, each with the path (the entry
\* numbers from the root) that tells it from a file of the same name
RECURSIVE WalkDirectory(_, _)
RECURSIVE WalkEntries(_, _, _)
\* a variant that looks at the chosen directory's own entries only
WalkDirectoryShallow(directoryHandle, path) ==
  IF directoryHandle.kind = "file"
  THEN IF /\ EndsWith(ToLowerCase(directoryHandle.name), <<".lua">>)
          /\ StringIncludes(ToLowerCase(directoryHandle.name), <<"metadata">>)
       THEN <<[name |-> directoryHandle.name, path |-> path]>>
       ELSE <<>>
  ELSE IF directoryHandle.kind = "directory" /\ path = <<>>
  THEN WalkEntries(directoryHandle.entries, path, 1)
  ELSE <<>>

WalkDirectory(directoryHandle, path) ==
  IF directoryHandle.kind = "file"
  THEN IF /\ EndsWith(ToLowerCase(directoryHandle.name), <<".lua">>)
          /\ StringIncludes(ToLowerCase(directoryHandle.name), <<"metadata">>)
       THEN <<[name |-> directoryHandle.name, path |-> path]>>
       ELSE <<>>
  ELSE IF directoryHandle.kind = "directory"
  THEN WalkEntries(directoryHandle.entries, path, 1)
  ELSE <<>>

\* the for-await loop over directoryHandle.values(), from entry k on
WalkEntries(entries, path, k) ==
  IF k > Len(entries) THEN <<>>
  ELSE WalkDirectory(entries[k], Append(path, k)) \o WalkEntries(entries, path, k + 1)

GetMetadataFiles(directoryHandle) == WalkDirectory(directoryHandle, <<>>)

HostSettings == [rememberDirectory : BOOLEAN, syncMode : {"per-page", "single-page"}]

HostInit ==
  /\ settings \in {cfg \in HostSettings : cfg.rememberDirectory}
  /\ host \in {[NoHost EXCEPT !.directory = d, !.storage = b] : d \in Roots, b \in BOOLEAN}
  /\ files = <<>>
  /\ nodes = <<>>
  /\ pages = <<>>
  /\ next = 1
  /\ index = <<>>
  /\ run = NoRun
  /\ last = NoLast
  /\ since = "none"
  /\ expect = <<>>
  /\ runs = 0
  /\ changes = 0

\* onSettingsChange: the stored handle after it
OnSettingsChange(cfg, storage) == IF ~cfg.rememberDirectory THEN FALSE ELSE storage

\* after a directory handle is at hand in syncKOReader, holding storage:
\* per-book mode enumerates; single-container mode reads the storage again
\* and asks for the directory once more when nothing is stored
AfterHandle(storage) ==
  IF settings.syncMode = "per-page" \/ storage
  THEN /\ files' = GetMetadataFiles(host.directory)
       /\ host' = [host EXCEPT !.storage = storage, !.listening = TRUE, !.phase = "enumerated"]
  ELSE /\ host' = [host EXCEPT !.storage = storage, !.listening = TRUE,
                                !.phase = "picking-single"]
       /\ UNCHANGED files

\* the toolbar button: onSettingsChange, the listener, the stored handle
\* and its permission; without a usable handle the picker opens
SyncKOReader ==
  /\ host.phase \in {"idle", "enumerated", "failed"}
  /\ runs < MaxRuns
  /\ runs' = runs + 1
  /\ \E permission \in BOOLEAN :
       IF OnSettingsChange(settings, host.storage) /\ permission
       THEN AfterHandle(OnSettingsChange(settings, host.storage))
       ELSE /\ host' = [host EXCEPT !.storage = OnSettingsChange(settings, host.storage),
                                     !.listening = TRUE, !.phase = "picking"]
            /\ UNCHANGED files
  /\ UNCHANGED <<settings, nodes, pages, next, index, run, last, since, expect, changes>>

\* showDirectoryPicker returns or throws; a handle is stored when the
\* setting says so at that moment
PickerReturns ==
  /\ host.phase \in {"picking", "picking-single"}
  /\ \E picked \in BOOLEAN :
       IF ~picked
       THEN /\ host' = [host EXCEPT !.phase = "failed"]
            /\ UNCHANGED files
       ELSE IF host.phase = "picking"
       THEN AfterHandle(settings.rememberDirectory \/ host.storage)
       ELSE /\ files' = GetMetadataFiles(host.directory)
            /\ host' = [host EXCEPT !.storage = settings.rememberDirectory \/ @,
                                     !.phase = "enumerated"]
  /\ UNCHANGED <<settings, nodes, pages, next, index, run, last, since, expect, runs, changes>>

\* the user switches rememberDirectory; the listener, once registered by a
\* sync, calls onSettingsChange
ChangeRemember ==
  /\ changes < MaxChanges
  /\ changes' = changes + 1
  /\ settings' = [settings EXCEPT !.rememberDirectory = ~@]
  /\ host' = IF host.listening
             THEN [host EXCEPT !.storage = OnSettingsChange(settings', @)]
             ELSE host
  /\ UNCHANGED <<files, nodes, pages, next, index, run, last, since, expect, runs>>

\* the application is started again: storage stays, the listener is gone
Restart ==
  /\ host.phase \in {"enumerated", "failed"}
  /\ host' = [host EXCEPT !.listening = FALSE, !.phase = "idle"]
  /\ files' = <<>>
  /\ UNCHANGED <<settings, nodes, pages, next, index, run, last, since, expect, runs, changes>>

HostNext == SyncKOReader \/ PickerReturns \/ ChangeRemember \/ Restart

HostSpec == HostInit /\ [][HostNext]_vars

\* the paths of the directory tree, and the handle at a path
Paths == SeqsUpTo(1..MaxFanout, MaxDepth)
RECURSIVE HandleAt(_, _)
HandleAt(handle, path) ==
  IF path = <<>> THEN handle
  ELSE IF handle.kind = "directory" /\ Head(path) <= Len(handle.entries)
       THEN HandleAt(handle.entries[Head(path)], Tail(path))
       ELSE NoHandle

\* lexicographic order of paths: the order of a depth-first walk
RECURSIVE PathBefore(_, _)
PathBefore(p, q) ==
  IF p = <<>> \/ q = <<>> THEN FALSE
  ELSE Head(p) < Head(q) \/ (Head(p) = Head(q) /\ PathBefore(Tail(p), Tail(q)))

(***************************************************************************)
(* C26. The enumeration returns exactly the files under the chosen         *)
(* directory, at any depth, whose name in lower case ends with ".lua" and  *)
(* contains "metadata": each of them once, under its own name, and no      *)
(* other file.                                                             *)
(***************************************************************************)
C26_Enumeration ==
  host.phase = "enumerated" =>
    /\ {files[k].path : k \in 1..Len(files)} =
         {p \in Paths :
            /\ HandleAt(host.directory, p).kind = "file"
            /\ EndsWith(ToLowerCase(HandleAt(host.directory, p).name), <<".lua">>)
            /\ StringIncludes(ToLowerCase(HandleAt(host.directory, p).name), <<"metadata">>)}
    /\ \A j, k \in 1..Len(files) :
         /\ j < k => PathBefore(files[j].path, files[k].path)
         /\ files[k].name = HandleAt(host.directory, files[k].path).name

\* a directory with a matching file in upper case inside a subdirectory,
\* next to a file that does not match
C26_Witness ==
  /\ host.phase = "enumerated"
  /\ \E k \in 1..Len(files) :
       Len(files[k].path) = MaxDepth /\ files[k].name = <<"METADATA", ".pdf", ".LUA">>
  /\ \E p \in Paths :
       /\ HandleAt(host.directory, p).kind = "file"
       /\ \A k \in 1..Len(files) : files[k].path # p

(***************************************************************************)
(* C27. The remembered directory handle is written to key-value storage    *)
(* only when rememberDirectory is true, and it is deleted whenever a sync  *)
(* is triggered or the settings change while rememberDirectory is false:   *)
(* after a sync triggered with rememberDirectory false, and after a        *)
(* change of the settings that leaves it false, no handle is stored.       *)
(***************************************************************************)
C27_HandleStorage ==
  [][ /\ (~host.storage /\ host'.storage) => settings.rememberDirectory
      /\ (runs' # runs /\ ~settings.rememberDirectory) => ~host'.storage
      /\ (settings' # settings /\ ~settings'.rememberDirectory) => ~host'.storage ]_vars

\* the blocks holding BEGIN_WARNING, and those among the top-level blocks
\* of the sync page
WarningBlocks(ns) == {id \in DOMAIN ns : Includes(ns[id].text, "BEGIN_WARNING")}
TopLevelWarnings(ns, ps) ==
  IF SyncPageName \in DOMAIN ps
  THEN {id \in WarningBlocks(ns) : ns[id].parent = ps[SyncPageName]}
  ELSE {}

(***************************************************************************)
(* C28. In single-container mode the warning block is ensured once: once   *)
(* the sync page exists it holds exactly one block with BEGIN_WARNING,     *)
(* whatever the number of runs, and a step inserts such a block only when  *)
(* no top-level block of the page holds it, as a top-level block.          *)
(***************************************************************************)
C28_WarningOnce ==
  /\ [](settings.syncMode = "single-page" /\ SyncPageName \in DOMAIN pages
          => Cardinality(WarningBlocks(nodes)) = 1)
  /\ [][ WarningBlocks(nodes') # WarningBlocks(nodes) =>
           /\ TopLevelWarnings(nodes, pages) = {}
           /\ WarningBlocks(nodes) \subseteq WarningBlocks(nodes')
           /\ WarningBlocks(nodes') \ WarningBlocks(nodes) \subseteq TopLevelWarnings(nodes', pages')
         ]_vars

\* a second run in single-container mode has ended on a page that had its
\* warning block from the first
C28_Witness ==
  /\ settings.syncMode = "single-page"
  /\ runs = 2
  /\ run.phase = "done"
  /\ Cardinality(TopLevelWarnings(nodes, pages)) = 1

PriorData ==
  IF PerPage
  THEN /\ BookPageName(LastFile, run.cfg) \in DOMAIN pages
       /\ pages[BookPageName(LastFile, run.cfg)] \in DOMAIN last.pre
  ELSE \E id \in DOMAIN last.pre : last.pre[id].text = HeadingMarker \o LastFile.book.title

\* the position of the insertion of block id in the log of the last file
InsertedAt(id) ==
  {k \in 1..Len(last.log) : last.log[k].op = "insert" /\ last.log[k].id = id}

\* the "### Bookmarks" blocks the last file inserted
NewSections ==
  {m.id : m \in {m \in LogSet : m.op = "insert" /\ m.text = BookmarksHeading}}

\* block id and its children are the entry block b of the fresh tree
IsEntryOf(id, b) ==
  /\ nodes[id].text = b.content
  /\ Len(nodes[id].kids) = Len(b.children)
  /\ \A k \in 1..Len(b.children) :
       /\ nodes[nodes[id].kids[k]].text = b.children[k].content
       /\ nodes[nodes[id].kids[k]].kids = <<>>

(***************************************************************************)
(* C30. When nothing of a book is in the store, its sync creates the       *)
(* "### Bookmarks" section and inserts every surviving entry of the fresh  *)
(* tree as a child of it, in source order, each inserted after the ones    *)
(* before it; a personal note is the single child of its entry; and every  *)
(* block is inserted after its parent.                                     *)
(***************************************************************************)
C30_FirstSync ==
  (Reconciled /\ ~PriorData /\ MetadataToBlock(LastFile, run.cfg) # NullBlock
     /\ MetadataToBlock(LastFile, run.cfg).children # <<>>) =>
    /\ Cardinality(NewSections) = 1
    /\ \A section \in NewSections :
         \A fresh \in {MetadataToBlock(LastFile, run.cfg).children[1].children} :
           /\ Len(nodes[section].kids) = Len(fresh)
           /\ \A j \in 1..Len(fresh) : IsEntryOf(nodes[section].kids[j], fresh[j])
           /\ \A i, j \in 1..Len(nodes[section].kids) :
                i < j => \A a \in InsertedAt(nodes[section].kids[i]),
                            b \in InsertedAt(nodes[section].kids[j]) : a < b
    /\ \A k \in 1..Len(last.log) :
         (last.log[k].op = "insert" /\ last.log[k].parent \notin DOMAIN last.pre)
           => \E j \in 1..(k - 1) : last.log[j].id = last.log[k].parent

\* the last file holds a highlight with a position and without text
HasTextlessEntry(file) ==
  /\ file.fmt = "annotations"
  /\ \E j \in 1..Len(file.entries) : file.entries[j].pos0 /\ file.entries[j].text = Absent

(***************************************************************************)
(* C31. An annotation with a position and without text is rendered as an   *)
(* entry "> (no text available)": once its file is synced, in either mode, *)
(* a "### Bookmarks" section holds an entry block with that text.          *)
(***************************************************************************)
C31_NoTextPlaceholder ==
  (Reconciled /\ HasTextlessEntry(LastFile)) =>
    \E id \in DOMAIN nodes :
      /\ nodes[id].text = QuoteMarker \o NoTextText
      /\ nodes[id].parent \in DOMAIN nodes
      /\ nodes[nodes[id].parent].text = BookmarksHeading

(***************************************************************************)
(* Store calls that fail.  A call of the plugin API fails in one of two    *)
(* ways: it throws, or it gives null.  A fourth specification adds to the  *)
(* steps of Spec a per-book file during whose syncBookmarksToPage one call *)
(* fails: a call throws after the reconciler has issued `after` mutations, *)
(* or getPageBlocksTree gives null.                                        *)
(***************************************************************************)
Fault(kind, after) == [kind |-> kind, after |-> after]

\* syncBookmarksToPage with a failing call: the store it leaves and whether
\* it raised; the catch block rethrows what was thrown, the null of
\* getPageBlocksTree is answered with a plain return
SyncBookmarksToPageFault(st, file, pageUUID, cfg, fault) ==
  IF fault.kind = "null" THEN [st |-> st, raised |-> FALSE]
  ELSE [st |-> [SyncBookmarksToPage([st EXCEPT !.budget = Len(st.log) + fault.after],
                                    file, pageUUID, cfg)
                  EXCEPT !.budget = st.budget],
        raised |-> TRUE]

\* the loop body of syncPerPageMode around it: an error raised lands in the
\* catch block, which logs it; a normal return counts the book as synced
PerPageFileFault(st, file, cfg, fault) ==
  LET st1 == GetOrCreateBookPage(st, file, cfg)
      page == st1.pages[BookPageName(file, cfg)]
      st2 == CreateBookmarksSection(st1, page)
      r == SyncBookmarksToPageFault(st2, file, page, cfg, fault)
  IN IF r.raised THEN Outcome(Increment(r.st), "error")
     ELSE Outcome(Increment(r.st), "synced")

\* the mutations syncBookmarksToPage issues for the file when nothing fails
ReconcilerMutations(st, file, cfg) ==
  Len(PerPageFile(st, file, cfg).st.log)
    - Len(CreateBookmarksSection(GetOrCreateBookPage(st, file, cfg),
            GetOrCreateBookPage(st, file, cfg).pages[BookPageName(file, cfg)]).log)

\* the failures of the file the loop is at
Faults(st, file, cfg) ==
  {Fault("null", 0)}
    \cup {Fault("throw", k) : k \in 0..(ReconcilerMutations(st, file, cfg) - 1)}
    \cup {Fault("throw", 0)}

FailFile ==
  /\ run.phase = "loop"
  /\ run.i <= Len(files)
  /\ run.cfg.syncMode = "per-page"
  /\ ~files[run.i].bad
  /\ files[run.i].entries # <<>>
  /\ \E fault \in Faults(Store(Unlimited), files[run.i], run.cfg) :
       \E r \in {PerPageFileFault(Store(Unlimited), files[run.i], run.cfg, fault)} :
          /\ nodes' = r.st.nodes
          /\ pages' = r.st.pages
          /\ next' = r.st.next
          /\ last' = [i |-> run.i, pre |-> nodes, log |-> r.st.log, outcome |-> r.outcome,
                       shown |-> r.st.msgs, counted |-> r.st.counted, fault |-> fault.kind]
          /\ run' = [run EXCEPT
                       !.i = @ + 1,
                       !.progress = @ + r.st.counted,
                       !.allBooks = IF r.outcome = "synced"
                                    THEN Append(@, BookPageName(files[run.i], run.cfg))
                                    ELSE @]
  /\ UNCHANGED <<settings, files, index, since, expect, runs, changes, host>>

FaultNext == Next \/ FailFile

FaultSpec == Init /\ [][FaultNext]_vars

(***************************************************************************)
(* C32. The reconciler does not swallow errors: whenever a store call      *)
(* fails inside syncBookmarksToPage, the call raises to its caller, whose  *)
(* catch block then runs; it never returns as if the book were synced.     *)
(***************************************************************************)
C32_ErrorsRaised ==
  (last.i > 0 /\ last.fault # "none") => last.outcome = "error"

\* the top-level "### Bookmarks" blocks of a page
TopLevelSections(ns, page) ==
  {k \in 1..Len(ns[page].kids) : ns[ns[page].kids[k]].text = BookmarksHeading}

(***************************************************************************)
(* C33. In per-book mode a book's page never holds more than one top-level *)
(* "### Bookmarks" block and holds exactly one once a file of the book is  *)
(* synced, whatever the number of runs; such a block is inserted only into *)
(* a page that has none.                                                   *)
(***************************************************************************)
C33_OneSectionPerPage ==
  PerPage =>
    /\ \A name \in DOMAIN pages \ {IndexPageName} :
         /\ Cardinality(TopLevelSections(nodes, pages[name])) <= 1
         /\ (Reconciled /\ name = BookPageName(LastFile, run.cfg))
              => Cardinality(TopLevelSections(nodes, pages[name])) = 1
    /\ \A m \in LogSet :
         (m.op = "insert" /\ m.text = BookmarksHeading /\ m.parent \in DOMAIN last.pre)
           => TopLevelSections(last.pre, m.parent) = {}

\* a second per-book run has synced a file of a book whose page had its
\* section from the first
C33_Witness ==
  /\ PerPage
  /\ runs = 2
  /\ Reconciled
  /\ pages[BookPageName(LastFile, run.cfg)] \in DOMAIN last.pre
  /\ Cardinality(TopLevelSections(last.pre, pages[BookPageName(LastFile, run.cfg)])) = 1
  /\ Cardinality(TopLevelSections(nodes, pages[BookPageName(LastFile, run.cfg)])) = 1

(***************************************************************************)
(* The loading flag.  A fifth specification puts the invocations of        *)
(* syncKOReader around the runs of Spec: the toolbar button may be clicked *)
(* at any time, an invocation waits for getUserConfigs, then tests and     *)
(* sets the flag in one go, runs the sync function of the mode and ends.   *)
(***************************************************************************)
MaxCalls == 3

\* the click: onSettingsChange, the listener, await getUserConfigs
Invoke ==
  /\ host.invoked < MaxCalls
  /\ host' = [host EXCEPT !.invoked = @ + 1, !.pending = @ + 1]
  /\ UNCHANGED <<settings, files, nodes, pages, next, index, run, last, since, expect, runs,
                 changes>>

\* a variant that sets the flag without testing it
GuardUnchecked ==
  /\ host.pending > 0
  /\ host.entered < MaxRuns
  /\ host' = [host EXCEPT !.pending = @ - 1, !.loading = TRUE, !.entered = @ + 1]
  /\ UNCHANGED <<settings, files, nodes, pages, next, index, run, last, since, expect, runs,
                 changes>>

\* getUserConfigs has answered: `if (loading) return`, `loading = true`
Guard ==
  /\ host.pending > 0
  /\ IF host.loading
     THEN host' = [host EXCEPT !.pending = @ - 1]
     ELSE /\ host.entered < MaxRuns
          /\ host' = [host EXCEPT !.pending = @ - 1, !.loading = TRUE, !.entered = @ + 1]
  /\ UNCHANGED <<settings, files, nodes, pages, next, index, run, last, since, expect, runs,
                 changes>>

\* an invocation that has set the flag goes on to the directory and the
\* sync function of the mode
Enter == host.entered > runs /\ (Start \/ StartFails)

\* the invocation ends: the paths that return set the flag to false before;
\* an error thrown by the sync function leaves syncKOReader at once
Return ==
  /\ host.entered > host.ended
  /\ runs = host.entered
  /\ run.phase \in {"done", "fatal", "aborted"}
  /\ host' = [host EXCEPT !.ended = @ + 1,
                          !.loading = IF run.phase = "aborted" THEN @ ELSE FALSE]
  /\ UNCHANGED <<settings, files, nodes, pages, next, index, run, last, since, expect, runs,
                 changes>>

GuardNext == Invoke \/ Guard \/ Enter \/ ProcessFile \/ Finish \/ Return

GuardSpec == Init /\ [][GuardNext]_vars

(***************************************************************************)
(* C34. At most one sync run is active at any time: never have two         *)
(* invocations set the loading flag without one of them having ended, the  *)
(* loop of a run belongs to the one invocation that holds the flag, and an *)
(* invocation that finds the flag set returns without starting a run and   *)
(* without touching the files or the store.                                *)
(***************************************************************************)
C34_OneRunAtATime ==
  /\ [](/\ host.entered - host.ended <= 1
        /\ run.phase = "loop" => (host.loading /\ host.entered = host.ended + 1))
  /\ [][ (host.loading /\ host'.pending < host.pending)
           => /\ host'.entered = host.entered
              /\ UNCHANGED <<files, nodes, pages, next, index, run, last, runs>>
         ]_vars

\* a later invocation has returned at the flag while the loop of the
\* earlier one was at its second file
C34_Witness ==
  /\ run.phase = "loop"
  /\ run.i = 2
  /\ host.invoked = 2
  /\ host.pending = 0
  /\ host.entered = 1
  /\ host.ended = 0

(***************************************************************************)
(* C35. The loading flag is always released: once every invocation that    *)
(* set it has ended, normally, at the directory picker or with an error of *)
(* the sync function, the flag is false.                                   *)
(***************************************************************************)
C35_GuardReleased ==
  host.entered = host.ended => ~host.loading

(***************************************************************************)
(* C36. Each file increments the progress counter exactly once, whatever   *)
(* the path its loop body takes, so that the counter equals the number of  *)
(* enumerated files when the run ends and the widget is destructed.        *)
(***************************************************************************)
C36_ProgressComplete ==
  /\ (last.i > 0 /\ last.outcome \in {"synced", "nodata", "warning", "error"})
       => last.counted = 1
  /\ run.phase = "done" => run.progress = Len(files)

\* syncSinglePageMode has ended: with the final status, by a return before
\* the loop, or with an error thrown in the loop
SinglePageEnded ==
  /\ run.cfg.syncMode = "single-page"
  /\ run.phase \in {"done", "fatal", "aborted"}
  /\ SyncPageName \in DOMAIN pages

(***************************************************************************)
(* C37. In single-container mode the LKRS status block is never left in a  *)
(* transient state: whenever syncSinglePageMode has ended, the block does  *)
(* not read "Please Select KOReader Metadata Directory" nor "Processing    *)
(* KOReader Annotations".                                                  *)
(***************************************************************************)
C37_StatusSettled ==
  SinglePageEnded =>
    \A id \in DOMAIN nodes :
      nodes[id].parent = pages[SyncPageName]
        => nodes[id].text \notin {StatusSelect, StatusProcessing}

====
